---- MODULE Spec2Model ----
(***************************************************************************)
(* A model of package ocsp (src/ocsp.go): the OCSP request and response    *)
(* codec.  The package is a set of pure functions; the state machine below *)
(* records the last call and what it returned, and its actions apply the   *)
(* package's functions to inputs drawn from bounded sets.                  *)
(*                                                                         *)
(* DER values are modelled as trees ("wire" records): an OPTIONAL element  *)
(* is a sequence of length 0 (absent) or 1 (present), an INTEGER is its    *)
(* content octets, a GeneralizedTime is a number of whole seconds.  The    *)
(* Unmarshal* operators turn wire records into the Go structures of the    *)
(* package (filling defaults for absent elements) and the Marshal*         *)
(* operators do the reverse (omitting optional elements that hold the      *)
(* zero value), as encoding/asn1 does.                                     *)
(***************************************************************************)
EXTENDS Integers, Sequences, FiniteSets, TLC

VARIABLES call, ret

vars == <<call, ret>>

(***************************************************************************)
(* Bounds of the model.                                                    *)
(***************************************************************************)
\* entries in one response / one request list
MaxResponses == 2
\* serial numbers found in wire entries are 1..MaxSerial
MaxSerial == 2
\* response status values found on the wire are 0..MaxWireStatus
MaxWireStatus == 7

(***************************************************************************)
(* Program constants.                                                      *)
(***************************************************************************)
Success == 0
Malformed == 1
InternalError == 2
TryLater == 3
SignatureRequired == 5
Unauthorized == 6

Good == 0
Revoked == 1
Unknown == 2
ServerFailed == 3

idPKIXOCSPBasic == <<1, 3, 6, 1, 5, 5, 7, 48, 1, 1>>

oidSignatureMD2WithRSA == <<1, 2, 840, 113549, 1, 1, 2>>
oidSignatureMD5WithRSA == <<1, 2, 840, 113549, 1, 1, 4>>
oidSignatureSHA1WithRSA == <<1, 2, 840, 113549, 1, 1, 5>>
oidSignatureSHA256WithRSA == <<1, 2, 840, 113549, 1, 1, 11>>
oidSignatureSHA384WithRSA == <<1, 2, 840, 113549, 1, 1, 12>>
oidSignatureSHA512WithRSA == <<1, 2, 840, 113549, 1, 1, 13>>
oidSignatureRSAPSS == <<1, 2, 840, 113549, 1, 1, 10>>
oidSignatureDSAWithSHA1 == <<1, 2, 840, 10040, 4, 3>>
oidSignatureDSAWithSHA256 == <<2, 16, 840, 1, 101, 3, 4, 3, 2>>
oidSignatureECDSAWithSHA1 == <<1, 2, 840, 10045, 4, 1>>
oidSignatureECDSAWithSHA256 == <<1, 2, 840, 10045, 4, 3, 2>>
oidSignatureECDSAWithSHA384 == <<1, 2, 840, 10045, 4, 3, 3>>
oidSignatureECDSAWithSHA512 == <<1, 2, 840, 10045, 4, 3, 4>>

oidSHA1 == <<1, 3, 14, 3, 2, 26>>
oidSHA256 == <<2, 16, 840, 1, 101, 3, 4, 2, 1>>
oidSHA384 == <<2, 16, 840, 1, 101, 3, 4, 2, 2>>
oidSHA512 == <<2, 16, 840, 1, 101, 3, 4, 2, 3>>
oidMGF1 == <<1, 2, 840, 113549, 1, 1, 8>>

\* an object identifier the package does not know
oidOther == <<1, 2, 3, 4>>
\* the nil object identifier (zero value of asn1.ObjectIdentifier)
oidNil == <<>>

\* crypto.Hash(0)
NoHash == "Hash(0)"

\* crypto.Hash values are modelled by their names.
hashOIDs ==
    [h \in {"SHA1", "SHA256", "SHA384", "SHA512"} |->
        CASE h = "SHA1" -> oidSHA1
          [] h = "SHA256" -> oidSHA256
          [] h = "SHA384" -> oidSHA384
          [] h = "SHA512" -> oidSHA512]

(***************************************************************************)
(* Raw ASN.1 parameter values of an AlgorithmIdentifier.  form is "empty"  *)
(* (no parameters element), "null" (05 00), "pss" (an RSASSA-PSS-params    *)
(* SEQUENCE, with its fields) or "junk" (anything else).                   *)
(***************************************************************************)
emptyRawValue == [form |-> "empty"]

NullRawValue == [form |-> "null"]

\* An RSASSA-PSS-params value on the wire.  HashParams and MGFHashParams are
\* the raw parameters of the two hash identifiers; TrailerField is OPTIONAL.
PSSWire(hash, hashParams, mgf, mgfHash, mgfHashParams, salt, trailer) ==
    [form |-> "pss", Hash |-> hash, HashParams |-> hashParams, MGF |-> mgf,
     MGFHash |-> mgfHash, MGFHashParams |-> mgfHashParams,
     SaltLength |-> salt, TrailerField |-> trailer]

pssParametersSHA256 == PSSWire(oidSHA256, "null", oidMGF1, oidSHA256, "null", 32, <<>>)

pssParametersSHA384 == PSSWire(oidSHA384, "null", oidMGF1, oidSHA384, "null", 48, <<>>)

pssParametersSHA512 == PSSWire(oidSHA512, "null", oidMGF1, oidSHA512, "null", 64, <<>>)

Detail(algo, oid, params, pubKeyAlgo, hash, isRSAPSS) ==
    [algo |-> algo, oid |-> oid, params |-> params, pubKeyAlgo |-> pubKeyAlgo,
     hash |-> hash, isRSAPSS |-> isRSAPSS]

\* x509.SignatureAlgorithm values are modelled by their names.
UnknownSignatureAlgorithm == "UnknownSignatureAlgorithm"

signatureAlgorithmDetails ==
    << Detail("MD2WithRSA", oidSignatureMD2WithRSA, NullRawValue, "RSA", NoHash, FALSE),
       Detail("MD5WithRSA", oidSignatureMD5WithRSA, NullRawValue, "RSA", "MD5", FALSE),
       Detail("SHA1WithRSA", oidSignatureSHA1WithRSA, NullRawValue, "RSA", "SHA1", FALSE),
       Detail("SHA256WithRSA", oidSignatureSHA256WithRSA, NullRawValue, "RSA", "SHA256", FALSE),
       Detail("SHA384WithRSA", oidSignatureSHA384WithRSA, NullRawValue, "RSA", "SHA384", FALSE),
       Detail("SHA512WithRSA", oidSignatureSHA512WithRSA, NullRawValue, "RSA", "SHA512", FALSE),
       Detail("SHA256WithRSAPSS", oidSignatureRSAPSS, pssParametersSHA256, "RSA", "SHA256", TRUE),
       Detail("SHA384WithRSAPSS", oidSignatureRSAPSS, pssParametersSHA384, "RSA", "SHA384", TRUE),
       Detail("SHA512WithRSAPSS", oidSignatureRSAPSS, pssParametersSHA512, "RSA", "SHA512", TRUE),
       Detail("DSAWithSHA1", oidSignatureDSAWithSHA1, emptyRawValue, "DSA", "SHA1", FALSE),
       Detail("DSAWithSHA256", oidSignatureDSAWithSHA256, emptyRawValue, "DSA", "SHA256", FALSE),
       Detail("ECDSAWithSHA1", oidSignatureECDSAWithSHA1, emptyRawValue, "ECDSA", "SHA1", FALSE),
       Detail("ECDSAWithSHA256", oidSignatureECDSAWithSHA256, emptyRawValue, "ECDSA", "SHA256", FALSE),
       Detail("ECDSAWithSHA384", oidSignatureECDSAWithSHA384, emptyRawValue, "ECDSA", "SHA384", FALSE),
       Detail("ECDSAWithSHA512", oidSignatureECDSAWithSHA512, emptyRawValue, "ECDSA", "SHA512", FALSE) >>

\* The indices of the registry entries that satisfy Test, in table order.
DetailIndices(Test(_)) ==
    {i \in 1..Len(signatureAlgorithmDetails) : Test(signatureAlgorithmDetails[i])}

Min(S) == CHOOSE x \in S : \A y \in S : x <= y

(***************************************************************************)
(* Unmarshal of pssParameters: the three explicit fields are required, the *)
(* trailer field defaults to 1.                                            *)
(***************************************************************************)
UnmarshalPSSParameters(raw) ==
    IF raw.form # "pss"
      THEN [err |-> TRUE]
      ELSE [err |-> FALSE,
            Hash |-> [Algorithm |-> raw.Hash, Parameters |-> raw.HashParams],
            MGF |-> [Algorithm |-> raw.MGF],
            mgf1HashFunc |-> [Algorithm |-> raw.MGFHash, Parameters |-> raw.MGFHashParams],
            SaltLength |-> raw.SaltLength,
            TrailerField |-> IF raw.TrailerField = <<>> THEN 1 ELSE raw.TrailerField[1]]

\* len(FullBytes) != 0 && !bytes.Equal(FullBytes, asn1.NullBytes)
NeitherAbsentNorNull(p) == p # "absent" /\ p # "null"

\* the resolution with the salt length not looked at
getSignatureAlgorithmFromAI_SaltIgnored(ai) ==
    IF ai.Algorithm # oidSignatureRSAPSS
      THEN LET hits == DetailIndices(LAMBDA d : d.oid = ai.Algorithm)
           IN  IF hits = {} THEN UnknownSignatureAlgorithm
               ELSE signatureAlgorithmDetails[Min(hits)].algo
      ELSE LET params == UnmarshalPSSParameters(ai.Parameters)
           IN  IF params.err THEN UnknownSignatureAlgorithm
               ELSE IF params.mgf1HashFunc.Algorithm = oidNil THEN UnknownSignatureAlgorithm
               ELSE IF \/ NeitherAbsentNorNull(params.Hash.Parameters)
                       \/ params.MGF.Algorithm # oidMGF1
                       \/ params.mgf1HashFunc.Algorithm # params.Hash.Algorithm
                       \/ NeitherAbsentNorNull(params.mgf1HashFunc.Parameters)
                       \/ params.TrailerField # 1
                 THEN UnknownSignatureAlgorithm
               ELSE IF params.Hash.Algorithm = oidSHA256 THEN "SHA256WithRSAPSS"
               ELSE IF params.Hash.Algorithm = oidSHA384 THEN "SHA384WithRSAPSS"
               ELSE IF params.Hash.Algorithm = oidSHA512 THEN "SHA512WithRSAPSS"
               ELSE UnknownSignatureAlgorithm

getSignatureAlgorithmFromAI(ai) ==
    IF ai.Algorithm # oidSignatureRSAPSS
      THEN LET hits == DetailIndices(LAMBDA d : d.oid = ai.Algorithm)
           IN  IF hits = {} THEN UnknownSignatureAlgorithm
               ELSE signatureAlgorithmDetails[Min(hits)].algo
      ELSE LET params == UnmarshalPSSParameters(ai.Parameters)
           IN  IF params.err THEN UnknownSignatureAlgorithm
               ELSE IF params.mgf1HashFunc.Algorithm = oidNil THEN UnknownSignatureAlgorithm
               ELSE IF \/ NeitherAbsentNorNull(params.Hash.Parameters)
                       \/ params.MGF.Algorithm # oidMGF1
                       \/ params.mgf1HashFunc.Algorithm # params.Hash.Algorithm
                       \/ NeitherAbsentNorNull(params.mgf1HashFunc.Parameters)
                       \/ params.TrailerField # 1
                 THEN UnknownSignatureAlgorithm
               ELSE IF params.Hash.Algorithm = oidSHA256 /\ params.SaltLength = 32
                 THEN "SHA256WithRSAPSS"
               ELSE IF params.Hash.Algorithm = oidSHA384 /\ params.SaltLength = 48
                 THEN "SHA384WithRSAPSS"
               ELSE IF params.Hash.Algorithm = oidSHA512 /\ params.SaltLength = 64
                 THEN "SHA512WithRSAPSS"
               ELSE UnknownSignatureAlgorithm

getHashAlgorithmFromOID(target) ==
    LET hits == {h \in DOMAIN hashOIDs : hashOIDs[h] = target}
    IN  IF hits = {} THEN NoHash ELSE CHOOSE h \in hits : TRUE

getOIDFromHashAlgorithm(target) ==
    IF target \in DOMAIN hashOIDs THEN hashOIDs[target] ELSE oidNil

(***************************************************************************)
(* encoding/asn1 on the primitive types the package's structures use.      *)
(***************************************************************************)
RECURSIVE Pow256(_)
Pow256(k) == IF k = 0 THEN 1 ELSE 256 * Pow256(k - 1)

RECURSIVE IntLen(_, _)
\* the least number L >= k of octets whose two's complement range holds n
IntLen(n, k) ==
    IF -(Pow256(k) \div 2) <= n /\ n < Pow256(k) \div 2 THEN k ELSE IntLen(n, k + 1)

RECURSIVE Octets(_, _)
\* the L base-256 digits of m, most significant first
Octets(m, L) == IF L = 0 THEN <<>> ELSE Append(Octets(m \div 256, L - 1), m % 256)

\* content octets of a DER INTEGER holding the *big.Int n
MarshalBigInt(n) ==
    LET L == IntLen(n, 1) IN Octets(IF n < 0 THEN n + Pow256(L) ELSE n, L)

RECURSIVE Unsigned(_)
Unsigned(b) ==
    IF b = <<>> THEN 0 ELSE 256 * Unsigned(SubSeq(b, 1, Len(b) - 1)) + b[Len(b)]

\* the *big.Int held by the content octets b of a DER INTEGER
UnmarshalBigInt(b) ==
    IF b[1] >= 128 THEN Unsigned(b) - Pow256(Len(b)) ELSE Unsigned(b)

\* A time.Time is an instant: whole seconds since the zero time, and the
\* nanoseconds within the second.  The zero time.Time is ZeroTime.
Time(sec, nsec) == [sec |-> sec, nsec |-> nsec]

ZeroTime == Time(0, 0)

\* GeneralizedTime (YYYYMMDDHHMMSSZ) holds whole seconds.
MarshalTime(t) == t.sec

UnmarshalTime(w) == Time(w, 0)

(***************************************************************************)
(* certID (src/ocsp.go 80-85) and the request structures (87-102).         *)
(***************************************************************************)
AlgorithmIdentifier(oid, params) == [Algorithm |-> oid, Parameters |-> params]

MarshalCertID(c) ==
    [hashAlgorithm |-> c.HashAlgorithm,
     issuerNameHash |-> c.NameHash,
     issuerKeyHash |-> c.IssuerKeyHash,
     serialNumber |-> MarshalBigInt(c.SerialNumber)]

UnmarshalCertID(w) ==
    [HashAlgorithm |-> w.hashAlgorithm,
     NameHash |-> w.issuerNameHash,
     IssuerKeyHash |-> w.issuerKeyHash,
     SerialNumber |-> UnmarshalBigInt(w.serialNumber)]

\* A DER value that is not the expected structure.
BadDER == [syntax |-> "bad", rest |-> 0]

\* ocspRequest: a SEQUENCE holding tbsRequest.  Elements that follow
\* tbsRequest inside the SEQUENCE (the optional signature of RFC 6960) have
\* no field in the Go structure.
MarshalOCSPRequest(r) ==
    [syntax |-> "ok", rest |-> 0,
     version |-> IF r.TBSRequest.Version = 0 THEN <<>> ELSE <<r.TBSRequest.Version>>,
     requestList |-> [i \in DOMAIN r.TBSRequest.RequestList |->
                        MarshalCertID(r.TBSRequest.RequestList[i].Cert)],
     requestExtensions |-> IF r.TBSRequest.RequestExtensions = <<>> THEN <<>>
                           ELSE <<r.TBSRequest.RequestExtensions>>,
     optionalSignature |-> <<>>]

\* asn1.Unmarshal(der, &req): extra elements at the end of a SEQUENCE are
\* allowed, so optionalSignature is skipped.
UnmarshalOCSPRequest(der) ==
    IF der.syntax # "ok"
      THEN [err |-> TRUE, rest |-> 0]
      ELSE [err |-> FALSE, rest |-> der.rest,
            val |-> [TBSRequest |->
                [Version |-> IF der.version = <<>> THEN 0 ELSE der.version[1],
                 RequestList |-> [i \in DOMAIN der.requestList |->
                                    [Cert |-> UnmarshalCertID(der.requestList[i])]],
                 RequestExtensions |-> IF der.requestExtensions = <<>> THEN <<>>
                                       ELSE der.requestExtensions[1]]]]

(***************************************************************************)
(* Results.  kind is "Request" or "Response" or "DER" (bytes) on success   *)
(* and otherwise the Go type of the error returned.                        *)
(***************************************************************************)
ParseError(msg) == [kind |-> "ParseError", msg |-> msg]

ResponseError(status) == [kind |-> "ResponseError", Status |-> status]

\* an error returned by encoding/asn1 (asn1.StructuralError, asn1.SyntaxError)
Asn1Error == [kind |-> "asn1.Error", msg |-> "asn1"]

\* an error returned by crypto/x509
X509Error == [kind |-> "x509.Error", msg |-> "x509"]

\* errors.New(msg)
ErrorsNew(msg) == [kind |-> "errors.errorString", msg |-> msg]

IsError(r) == r.kind \notin {"Request", "Response", "DER", "SigningParams", "SignatureAlgorithm"}

(***************************************************************************)
(* Request.Marshal and ParseRequest.                                       *)
(***************************************************************************)
\* Marshal writing the request's Extensions as requestExtensions
Marshal_WithExtensions(req) ==
    LET hashAlg == getOIDFromHashAlgorithm(req.HashAlgorithm)
    IN  IF hashAlg = oidNil
          THEN ErrorsNew("unknown hash algorithm")
          ELSE [kind |-> "DER",
                der |-> MarshalOCSPRequest(
                    [TBSRequest |->
                        [Version |-> 0,
                         RequestList |->
                            << [Cert |-> [HashAlgorithm |-> AlgorithmIdentifier(hashAlg, NullRawValue),
                                          NameHash |-> req.IssuerNameHash,
                                          IssuerKeyHash |-> req.IssuerKeyHash,
                                          SerialNumber |-> req.SerialNumber]] >>,
                         RequestExtensions |-> req.Extensions]])]

\* Marshal with the issuer name hash and the issuer key hash exchanged
Marshal_HashesSwapped(req) ==
    LET hashAlg == getOIDFromHashAlgorithm(req.HashAlgorithm)
    IN  IF hashAlg = oidNil
          THEN ErrorsNew("unknown hash algorithm")
          ELSE [kind |-> "DER",
                der |-> MarshalOCSPRequest(
                    [TBSRequest |->
                        [Version |-> 0,
                         RequestList |->
                            << [Cert |-> [HashAlgorithm |-> AlgorithmIdentifier(hashAlg, NullRawValue),
                                          NameHash |-> req.IssuerKeyHash,
                                          IssuerKeyHash |-> req.IssuerNameHash,
                                          SerialNumber |-> req.SerialNumber]] >>,
                         RequestExtensions |-> <<>>]])]

Marshal(req) ==
    LET hashAlg == getOIDFromHashAlgorithm(req.HashAlgorithm)
    IN  IF hashAlg = oidNil
          THEN ErrorsNew("unknown hash algorithm")
          ELSE [kind |-> "DER",
                der |-> MarshalOCSPRequest(
                    [TBSRequest |->
                        [Version |-> 0,
                         RequestList |->
                            << [Cert |-> [HashAlgorithm |-> AlgorithmIdentifier(hashAlg, NullRawValue),
                                          NameHash |-> req.IssuerNameHash,
                                          IssuerKeyHash |-> req.IssuerKeyHash,
                                          SerialNumber |-> req.SerialNumber]] >>,
                         RequestExtensions |-> <<>>]])]

\* ParseRequest reading the last entry of the request list, not the first
ParseRequest_LastEntry(der) ==
    LET u == UnmarshalOCSPRequest(der)
    IN  IF u.err THEN Asn1Error
        ELSE IF u.rest > 0 THEN ParseError("trailing data in OCSP request")
        ELSE IF Len(u.val.TBSRequest.RequestList) = 0
          THEN ParseError("OCSP request contains no request body")
        ELSE LET innerRequest ==
                     u.val.TBSRequest.RequestList[Len(u.val.TBSRequest.RequestList)]
                 hashFunc == getHashAlgorithmFromOID(innerRequest.Cert.HashAlgorithm.Algorithm)
             IN  IF hashFunc = NoHash
                   THEN ParseError("OCSP request uses unknown hash function")
                   ELSE [kind |-> "Request",
                         req |-> [HashAlgorithm |-> hashFunc,
                                  IssuerNameHash |-> innerRequest.Cert.NameHash,
                                  IssuerKeyHash |-> innerRequest.Cert.IssuerKeyHash,
                                  SerialNumber |-> innerRequest.Cert.SerialNumber,
                                  Extensions |-> u.val.TBSRequest.RequestExtensions]]

ParseRequest(der) ==
    LET u == UnmarshalOCSPRequest(der)
    IN  IF u.err THEN Asn1Error
        ELSE IF u.rest > 0 THEN ParseError("trailing data in OCSP request")
        ELSE IF Len(u.val.TBSRequest.RequestList) = 0
          THEN ParseError("OCSP request contains no request body")
        ELSE LET innerRequest == u.val.TBSRequest.RequestList[1]
                 hashFunc == getHashAlgorithmFromOID(innerRequest.Cert.HashAlgorithm.Algorithm)
             IN  IF hashFunc = NoHash
                   THEN ParseError("OCSP request uses unknown hash function")
                   ELSE [kind |-> "Request",
                         req |-> [HashAlgorithm |-> hashFunc,
                                  IssuerNameHash |-> innerRequest.Cert.NameHash,
                                  IssuerKeyHash |-> innerRequest.Cert.IssuerKeyHash,
                                  SerialNumber |-> innerRequest.Cert.SerialNumber,
                                  Extensions |-> u.val.TBSRequest.RequestExtensions]]

(***************************************************************************)
(* The response structures (src/ocsp.go 104-144).                          *)
(***************************************************************************)
\* revokedInfo; Reason is OPTIONAL.
MarshalRevokedInfo(r) ==
    [revocationTime |-> MarshalTime(r.RevocationTime),
     reason |-> IF r.Reason = 0 THEN <<>> ELSE <<r.Reason>>]

UnmarshalRevokedInfo(w) ==
    [RevocationTime |-> UnmarshalTime(w.revocationTime),
     Reason |-> IF w.reason = <<>> THEN 0 ELSE w.reason[1]]

\* the zero value of revokedInfo
ZeroRevokedInfo == [RevocationTime |-> ZeroTime, Reason |-> 0]

\* singleResponse.  Good and Unknown are asn1.Flag (present or not); Revoked,
\* NextUpdate and SingleExtensions are optional: encoding/asn1 leaves out an
\* optional field that holds its type's zero value.
MarshalSingleResponse(s) ==
    [certID |-> MarshalCertID(s.CertID),
     good |-> s.Good,
     revoked |-> IF s.Revoked = ZeroRevokedInfo THEN <<>>
                 ELSE <<MarshalRevokedInfo(s.Revoked)>>,
     unknown |-> s.Unknown,
     thisUpdate |-> MarshalTime(s.ThisUpdate),
     nextUpdate |-> IF s.NextUpdate = ZeroTime THEN <<>> ELSE <<MarshalTime(s.NextUpdate)>>,
     singleExtensions |-> IF s.SingleExtensions = <<>> THEN <<>> ELSE <<s.SingleExtensions>>]

UnmarshalSingleResponse(w) ==
    [CertID |-> UnmarshalCertID(w.certID),
     Good |-> w.good,
     Revoked |-> IF w.revoked = <<>> THEN ZeroRevokedInfo
                 ELSE UnmarshalRevokedInfo(w.revoked[1]),
     Unknown |-> w.unknown,
     ThisUpdate |-> UnmarshalTime(w.thisUpdate),
     NextUpdate |-> IF w.nextUpdate = <<>> THEN ZeroTime ELSE UnmarshalTime(w.nextUpdate[1]),
     SingleExtensions |-> IF w.singleExtensions = <<>> THEN <<>> ELSE w.singleExtensions[1]]

\* responseData.  Raw is the DER of the structure as found on the wire.
MarshalResponseData(t) ==
    [responderID |-> t.RawResponderID,
     producedAt |-> MarshalTime(t.ProducedAt),
     responses |-> [i \in DOMAIN t.Responses |-> MarshalSingleResponse(t.Responses[i])],
     responseExtensions |-> IF t.ResponseExtensions = <<>> THEN <<>>
                            ELSE <<t.ResponseExtensions>>]

UnmarshalResponseData(w) ==
    [Raw |-> w,
     Version |-> 0,
     RawResponderID |-> w.responderID,
     ProducedAt |-> UnmarshalTime(w.producedAt),
     Responses |-> [i \in DOMAIN w.responses |-> UnmarshalSingleResponse(w.responses[i])],
     ResponseExtensions |-> IF w.responseExtensions = <<>> THEN <<>>
                            ELSE w.responseExtensions[1]]

\* basicResponse.
MarshalBasicResponse(b) ==
    [syntax |-> "ok", rest |-> 0,
     tbsResponseData |-> MarshalResponseData(b.TBSResponseData),
     signatureAlgorithm |-> b.SignatureAlgorithm,
     signature |-> b.Signature,
     certificates |-> b.Certificates]

UnmarshalBasicResponse(der) ==
    IF der.syntax # "ok"
      THEN [err |-> TRUE, rest |-> 0]
      ELSE [err |-> FALSE, rest |-> der.rest,
            val |-> [TBSResponseData |-> UnmarshalResponseData(der.tbsResponseData),
                     SignatureAlgorithm |-> der.signatureAlgorithm,
                     Signature |-> der.signature,
                     Certificates |-> der.certificates]]

\* responseASN1 and responseBytes.  Response is OPTIONAL; when it is absent
\* ResponseType is the nil object identifier and Response has no bytes.
MarshalResponseASN1(r) ==
    [syntax |-> "ok", rest |-> 0,
     status |-> r.Status,
     response |-> << [responseType |-> r.Response.ResponseType,
                      response |-> r.Response.Response] >>]

UnmarshalResponseASN1(der) ==
    IF der.syntax # "ok"
      THEN [err |-> TRUE, rest |-> 0]
      ELSE [err |-> FALSE, rest |-> der.rest,
            val |-> [Status |-> der.status,
                     Response |-> IF der.response = <<>>
                                    THEN [ResponseType |-> oidNil, Response |-> BadDER]
                                    ELSE [ResponseType |-> der.response[1].responseType,
                                          Response |-> der.response[1].response]]]

(***************************************************************************)
(* crypto/x509 as the package uses it.  A signature value records the key  *)
(* that made it, the hash and padding it was made with and the bytes it    *)
(* was made over.                                                          *)
(***************************************************************************)
Signature(key, hash, pss, over) == [key |-> key, hash |-> hash, pss |-> pss, over |-> over]

\* the nil *x509.Certificate
NilCertificate == [isNil |-> TRUE]

\* Certificate.CheckSignature(algo, signed, signature) returns nil
CheckSignature(c, algo, signed, signature) ==
    LET hits == DetailIndices(LAMBDA d : d.algo = algo)
    IN  /\ hits # {}
        /\ LET d == signatureAlgorithmDetails[Min(hits)]
           IN  /\ d.hash \notin {NoHash, "MD5"}
               /\ d.pubKeyAlgo = c.PublicKey.type
               /\ signature.key = c.PublicKey
               /\ signature.hash = d.hash
               /\ signature.pss = d.isRSAPSS
               /\ signature.over = signed

\* x509.ParseCertificate on the bytes of an embedded certificate
ParseCertificate(raw) == [err |-> ~raw.parses, cert |-> raw.cert]

\* Response.CheckSignatureFrom
CheckSignatureFrom(resp, issuer) ==
    CheckSignature(issuer, resp.SignatureAlgorithm, <<resp.TBSResponseData>>, resp.Signature)

(***************************************************************************)
(* The bytes of a ResponderID choice: the DER value found inside the tag.  *)
(***************************************************************************)
RawBytes(inner, content, rest) == [inner |-> inner, content |-> content, rest |-> rest]

\* no bytes at all
NoBytes == RawBytes("none", <<>>, 0)

\* asn1.Unmarshal(b, &rdn) for a pkix.RDNSequence
UnmarshalRDNSequence(b) == [err |-> b.inner # "SEQUENCE", rest |-> b.rest]

\* asn1.Unmarshal(b, &octets) for a []byte
UnmarshalOctetString(b) ==
    [err |-> b.inner # "OCTET STRING", rest |-> b.rest, val |-> b.content]

(***************************************************************************)
(* ParseResponseForCert (src/ocsp.go 579-715), in the order of the code.   *)
(***************************************************************************)
\* the choice of singleResp taking the last matching entry, not the first
SelectSingleResponse_LastMatch(responses, cert) ==
    LET n == Len(responses)
    IN  IF n = 0 \/ (cert.isNil /\ n > 1)
          THEN [err |-> "OCSP response contains bad number of responses"]
        ELSE IF cert.isNil
          THEN [err |-> "", singleResp |-> responses[1]]
        ELSE LET hits == {i \in 1..n : cert.SerialNumber = responses[i].CertID.SerialNumber}
             IN  IF hits = {}
                   THEN [err |-> "no response matching the supplied certificate"]
                   ELSE [err |-> "",
                         singleResp |-> responses[CHOOSE i \in hits : \A j \in hits : j <= i]]

\* lines 606-625: the entry count check and the choice of singleResp
SelectSingleResponse(responses, cert) ==
    LET n == Len(responses)
    IN  IF n = 0 \/ (cert.isNil /\ n > 1)
          THEN [err |-> "OCSP response contains bad number of responses"]
        ELSE IF cert.isNil
          THEN [err |-> "", singleResp |-> responses[1]]
        ELSE LET hits == {i \in 1..n : cert.SerialNumber = responses[i].CertID.SerialNumber}
             IN  IF hits = {}
                   THEN [err |-> "no response matching the supplied certificate"]
                   ELSE [err |-> "", singleResp |-> responses[Min(hits)]]

\* lines 640-657: the ResponderID CHOICE
ResolveResponderID(rawResponderID) ==
    CASE rawResponderID.Tag = 1 ->
            LET r == UnmarshalRDNSequence(rawResponderID.Bytes)
            IN  IF r.err \/ r.rest # 0
                  THEN [err |-> "invalid responder name"]
                  ELSE [err |-> "", RawResponderName |-> rawResponderID.Bytes,
                        ResponderKeyHash |-> <<>>]
      [] rawResponderID.Tag = 2 ->
            LET r == UnmarshalOctetString(rawResponderID.Bytes)
            IN  IF r.err \/ r.rest # 0
                  THEN [err |-> "invalid responder key hash"]
                  ELSE [err |-> "", RawResponderName |-> NoBytes,
                        ResponderKeyHash |-> r.val]
      [] OTHER -> [err |-> "invalid responder id tag"]

\* the signature checks without the check of the embedded certificate's
\* own signature under the issuer
VerifySignatures_CertificateUnchecked(resp, certificates, issuer) ==
    IF Len(certificates) > 0
      THEN LET p == ParseCertificate(certificates[1])
           IN  IF p.err THEN [err |-> X509Error]
               ELSE IF ~CheckSignatureFrom(resp, p.cert)
                 THEN [err |-> ParseError("bad signature on embedded certificate")]
               ELSE [err |-> [kind |-> "nil"], Certificate |-> p.cert]
    ELSE IF ~issuer.isNil /\ ~CheckSignatureFrom(resp, issuer)
      THEN [err |-> ParseError("bad OCSP signature")]
    ELSE [err |-> [kind |-> "nil"], Certificate |-> NilCertificate]

\* the signature checks with the embedded certificate's key tried only
\* when an issuer is given
VerifySignatures_OnlyWithIssuer(resp, certificates, issuer) ==
    IF Len(certificates) > 0
      THEN LET p == ParseCertificate(certificates[1])
           IN  IF p.err THEN [err |-> X509Error]
               ELSE IF ~issuer.isNil /\ ~CheckSignatureFrom(resp, p.cert)
                 THEN [err |-> ParseError("bad signature on embedded certificate")]
               ELSE IF ~issuer.isNil
                       /\ ~CheckSignature(issuer, p.cert.SignatureAlgorithm,
                                          <<p.cert.RawTBSCertificate>>, p.cert.Signature)
                 THEN [err |-> ParseError("bad OCSP signature")]
               ELSE [err |-> [kind |-> "nil"], Certificate |-> p.cert]
    ELSE IF ~issuer.isNil /\ ~CheckSignatureFrom(resp, issuer)
      THEN [err |-> ParseError("bad OCSP signature")]
    ELSE [err |-> [kind |-> "nil"], Certificate |-> NilCertificate]

\* lines 659-685: the embedded certificate and the signature checks.  resp
\* holds the fields of ret that CheckSignatureFrom reads.
VerifySignatures(resp, certificates, issuer) ==
    IF Len(certificates) > 0
      THEN LET p == ParseCertificate(certificates[1])
           IN  IF p.err THEN [err |-> X509Error]
               ELSE IF ~CheckSignatureFrom(resp, p.cert)
                 THEN [err |-> ParseError("bad signature on embedded certificate")]
               ELSE IF ~issuer.isNil
                       /\ ~CheckSignature(issuer, p.cert.SignatureAlgorithm,
                                          <<p.cert.RawTBSCertificate>>, p.cert.Signature)
                 THEN [err |-> ParseError("bad OCSP signature")]
               ELSE [err |-> [kind |-> "nil"], Certificate |-> p.cert]
    ELSE IF ~issuer.isNil /\ ~CheckSignatureFrom(resp, issuer)
      THEN [err |-> ParseError("bad OCSP signature")]
    ELSE [err |-> [kind |-> "nil"], Certificate |-> NilCertificate]

\* the critical-extension test looking at the first extension only
HasCriticalExtension_FirstOnly(exts) == exts # <<>> /\ exts[1].Critical

\* lines 687-691
HasCriticalExtension(exts) == \E i \in DOMAIN exts : exts[i].Critical

\* the status with the revocation data copied whatever the status is
ClassifyStatus_RevocationDataAlways(singleResp) ==
    [Status |-> IF singleResp.Good THEN Good
                ELSE IF singleResp.Unknown THEN Unknown ELSE Revoked,
     RevokedAt |-> singleResp.Revoked.RevocationTime,
     RevocationReason |-> singleResp.Revoked.Reason]

\* the status with Unknown tested before Good
ClassifyStatus_UnknownFirst(singleResp) ==
    IF singleResp.Unknown
      THEN [Status |-> Unknown, RevokedAt |-> ZeroTime, RevocationReason |-> 0]
    ELSE IF singleResp.Good
      THEN [Status |-> Good, RevokedAt |-> ZeroTime, RevocationReason |-> 0]
    ELSE [Status |-> Revoked,
          RevokedAt |-> singleResp.Revoked.RevocationTime,
          RevocationReason |-> singleResp.Revoked.Reason]

\* lines 703-712: Status, RevokedAt and RevocationReason of ret
ClassifyStatus(singleResp) ==
    IF singleResp.Good
      THEN [Status |-> Good, RevokedAt |-> ZeroTime, RevocationReason |-> 0]
    ELSE IF singleResp.Unknown
      THEN [Status |-> Unknown, RevokedAt |-> ZeroTime, RevocationReason |-> 0]
    ELSE [Status |-> Revoked,
          RevokedAt |-> singleResp.Revoked.RevocationTime,
          RevocationReason |-> singleResp.Revoked.Reason]

\* lines 597-715: the basic response, once the envelope is accepted
ParseBasicResponse(der, inner, cert, issuer) ==
    LET b == UnmarshalBasicResponse(inner)
    IN  IF b.err THEN Asn1Error
        ELSE IF b.rest > 0 THEN ParseError("trailing data in OCSP response")
        ELSE
        LET basicResp == b.val
            sel == SelectSingleResponse(basicResp.TBSResponseData.Responses, cert)
        IN  IF sel.err # "" THEN ParseError(sel.err)
            ELSE
            LET singleResp == sel.singleResp
                sig == [TBSResponseData |-> basicResp.TBSResponseData.Raw,
                        Signature |-> basicResp.Signature,
                        SignatureAlgorithm |->
                            getSignatureAlgorithmFromAI(basicResp.SignatureAlgorithm)]
                rid == ResolveResponderID(basicResp.TBSResponseData.RawResponderID)
            IN  IF rid.err # "" THEN ParseError(rid.err)
                ELSE
                LET v == VerifySignatures(sig, basicResp.Certificates, issuer)
                IN  IF v.err.kind # "nil" THEN v.err
                    ELSE IF HasCriticalExtension(singleResp.SingleExtensions)
                      THEN ParseError("unsupported critical extension")
                    ELSE
                    LET IssuerHash ==
                            getHashAlgorithmFromOID(singleResp.CertID.HashAlgorithm.Algorithm)
                        st == ClassifyStatus(singleResp)
                    IN  IF IssuerHash = NoHash
                          THEN ParseError("unsupported issuer hash algorithm")
                          ELSE [kind |-> "Response",
                                resp |->
                                  [Raw |-> der,
                                   TBSResponseData |-> sig.TBSResponseData,
                                   Signature |-> sig.Signature,
                                   SignatureAlgorithm |-> sig.SignatureAlgorithm,
                                   Extensions |-> singleResp.SingleExtensions,
                                   SerialNumber |-> singleResp.CertID.SerialNumber,
                                   ProducedAt |-> basicResp.TBSResponseData.ProducedAt,
                                   ResponseExtensions |->
                                       basicResp.TBSResponseData.ResponseExtensions,
                                   ThisUpdate |-> singleResp.ThisUpdate,
                                   NextUpdate |-> singleResp.NextUpdate,
                                   RawResponderName |-> rid.RawResponderName,
                                   ResponderKeyHash |-> rid.ResponderKeyHash,
                                   Certificate |-> v.Certificate,
                                   IssuerHash |-> IssuerHash,
                                   Status |-> st.Status,
                                   RevokedAt |-> st.RevokedAt,
                                   RevocationReason |-> st.RevocationReason]]

\* the envelope checks with the response type tested before the status
ParseResponseForCert_TypeBeforeStatus(der, cert, issuer) ==
    LET u == UnmarshalResponseASN1(der)
    IN  IF u.err THEN Asn1Error
        ELSE IF u.rest > 0 THEN ParseError("trailing data in OCSP response")
        ELSE IF u.val.Response.ResponseType # idPKIXOCSPBasic
          THEN ParseError("bad OCSP response type")
        ELSE IF u.val.Status # Success THEN ResponseError(u.val.Status)
        ELSE ParseBasicResponse(der, u.val.Response.Response, cert, issuer)

ParseResponseForCert(der, cert, issuer) ==
    LET u == UnmarshalResponseASN1(der)
    IN  IF u.err THEN Asn1Error
        ELSE IF u.rest > 0 THEN ParseError("trailing data in OCSP response")
        ELSE IF u.val.Status # Success THEN ResponseError(u.val.Status)
        ELSE IF u.val.Response.ResponseType # idPKIXOCSPBasic
          THEN ParseError("bad OCSP response type")
        ELSE ParseBasicResponse(der, u.val.Response.Response, cert, issuer)

ParseResponse(der, issuer) == ParseResponseForCert(der, NilCertificate, issuer)

(***************************************************************************)
(* signingParamsForPublicKey (src/ocsp.go 232-300).  A public key is       *)
(* [type, curve, id]; signer options are the hash and, for PSS, the salt   *)
(* length rule.                                                            *)
(***************************************************************************)
SignerOpts(hash, pss) ==
    [HashFunc |-> hash, PSS |-> pss,
     SaltLength |-> IF pss THEN "PSSSaltLengthEqualsHash" ELSE "none"]

\* lines 235-261: the defaults chosen from the key
DefaultSigningParams(pub) ==
    CASE pub.type = "RSA" ->
            [err |-> "", pubType |-> "RSA", signerOpts |-> SignerOpts("SHA256", FALSE),
             sigAlgo |-> AlgorithmIdentifier(oidSignatureSHA256WithRSA, NullRawValue)]
      [] pub.type = "ECDSA" /\ pub.curve \in {"P224", "P256"} ->
            [err |-> "", pubType |-> "ECDSA", signerOpts |-> SignerOpts("SHA256", FALSE),
             sigAlgo |-> AlgorithmIdentifier(oidSignatureECDSAWithSHA256, emptyRawValue)]
      [] pub.type = "ECDSA" /\ pub.curve = "P384" ->
            [err |-> "", pubType |-> "ECDSA", signerOpts |-> SignerOpts("SHA384", FALSE),
             sigAlgo |-> AlgorithmIdentifier(oidSignatureECDSAWithSHA384, emptyRawValue)]
      [] pub.type = "ECDSA" /\ pub.curve = "P521" ->
            [err |-> "", pubType |-> "ECDSA", signerOpts |-> SignerOpts("SHA512", FALSE),
             sigAlgo |-> AlgorithmIdentifier(oidSignatureECDSAWithSHA512, emptyRawValue)]
      [] pub.type = "ECDSA" ->
            [err |-> "x509: unknown elliptic curve"]
      [] OTHER ->
            [err |-> "x509: only RSA and ECDSA keys supported"]

\* the resolution without the test of the key's kind
signingParamsForPublicKey_KindUnchecked(pub, requestedSigAlgo) ==
    LET def == DefaultSigningParams(pub)
    IN  IF def.err # "" THEN [err |-> def.err]
        ELSE IF requestedSigAlgo = UnknownSignatureAlgorithm
          THEN [err |-> "", signerOpts |-> def.signerOpts, sigAlgo |-> def.sigAlgo]
        ELSE LET hits == DetailIndices(LAMBDA d : d.algo = requestedSigAlgo)
             IN  IF hits = {} THEN [err |-> "x509: unknown SignatureAlgorithm"]
                 ELSE LET details == signatureAlgorithmDetails[Min(hits)]
                      IN  IF details.hash = NoHash
                            THEN [err |-> "x509: cannot sign with hash function requested"]
                          ELSE [err |-> "",
                                signerOpts |-> SignerOpts(details.hash, details.isRSAPSS),
                                sigAlgo |-> AlgorithmIdentifier(details.oid, details.params)]

signingParamsForPublicKey(pub, requestedSigAlgo) ==
    LET def == DefaultSigningParams(pub)
    IN  IF def.err # "" THEN [err |-> def.err]
        ELSE IF requestedSigAlgo = UnknownSignatureAlgorithm
          THEN [err |-> "", signerOpts |-> def.signerOpts, sigAlgo |-> def.sigAlgo]
        ELSE LET hits == DetailIndices(LAMBDA d : d.algo = requestedSigAlgo)
             IN  IF hits = {} THEN [err |-> "x509: unknown SignatureAlgorithm"]
                 ELSE LET details == signatureAlgorithmDetails[Min(hits)]
                      IN  IF details.pubKeyAlgo # def.pubType
                            THEN [err |-> "x509: requested SignatureAlgorithm does not match private key type"]
                          ELSE IF details.hash = NoHash
                            THEN [err |-> "x509: cannot sign with hash function requested"]
                          ELSE [err |-> "",
                                signerOpts |-> SignerOpts(details.hash, details.isRSAPSS),
                                sigAlgo |-> AlgorithmIdentifier(details.oid, details.params)]

(***************************************************************************)
(* CreateResponse (src/ocsp.go 788-899).  now is the value of time.Now();  *)
(* priv is the signer, given by its public key.                            *)
(***************************************************************************)
\* the digest of data under hash h: its bytes depend on h and on the data
Digest(h, data) == <<h>> \o data

\* template.<Time>.UTC(): the same instant
UTC(t) == t

\* time.Now().Truncate(time.Minute).UTC()
TruncateMinute(t) == Time((t.sec \div 60) * 60, 0)

\* the single response built without the template's revocation reason
InnerResponse_ReasonDropped(template, hashOID, issuerNameHash, issuerKeyHash) ==
    [CertID |-> [HashAlgorithm |-> AlgorithmIdentifier(hashOID, NullRawValue),
                 NameHash |-> issuerNameHash,
                 IssuerKeyHash |-> issuerKeyHash,
                 SerialNumber |-> template.SerialNumber],
     ThisUpdate |-> UTC(template.ThisUpdate),
     NextUpdate |-> UTC(template.NextUpdate),
     SingleExtensions |-> template.ExtraExtensions,
     Good |-> (template.Status = Good),
     Unknown |-> (template.Status = Unknown),
     Revoked |-> IF template.Status = Revoked
                   THEN [RevocationTime |-> UTC(template.RevokedAt), Reason |-> 0]
                   ELSE ZeroRevokedInfo]

\* lines 816-841: the single response built from the template
InnerResponse(template, hashOID, issuerNameHash, issuerKeyHash) ==
    [CertID |-> [HashAlgorithm |-> AlgorithmIdentifier(hashOID, NullRawValue),
                 NameHash |-> issuerNameHash,
                 IssuerKeyHash |-> issuerKeyHash,
                 SerialNumber |-> template.SerialNumber],
     ThisUpdate |-> UTC(template.ThisUpdate),
     NextUpdate |-> UTC(template.NextUpdate),
     SingleExtensions |-> template.ExtraExtensions,
     Good |-> (template.Status = Good),
     Unknown |-> (template.Status = Unknown),
     Revoked |-> IF template.Status = Revoked
                   THEN [RevocationTime |-> UTC(template.RevokedAt),
                         Reason |-> template.RevocationReason]
                   ELSE ZeroRevokedInfo]

CreateResponse(issuer, responderCert, template, priv, now) ==
    IF issuer.RawSubjectPublicKeyInfo.syntax # "ok" THEN Asn1Error
    ELSE
    LET IssuerHash == IF template.IssuerHash = NoHash THEN "SHA1" ELSE template.IssuerHash
        hashOID == getOIDFromHashAlgorithm(IssuerHash)
    IN  IF hashOID = oidNil THEN ErrorsNew("unsupported issuer hash algorithm")
        ELSE
        LET issuerKeyHash == Digest(IssuerHash, issuer.RawSubjectPublicKeyInfo.PublicKey)
            issuerNameHash == Digest(IssuerHash, issuer.RawSubject.content)
            innerResponse == InnerResponse(template, hashOID, issuerNameHash, issuerKeyHash)
            rawResponderID == [Class |-> 2, Tag |-> 1, IsCompound |-> TRUE,
                               Bytes |-> responderCert.RawSubject]
            tbsResponseData == [Version |-> 0,
                                RawResponderID |-> rawResponderID,
                                ProducedAt |-> TruncateMinute(now),
                                Responses |-> <<innerResponse>>,
                                ResponseExtensions |-> template.ResponseExtraExtensions]
            tbsResponseDataDER == MarshalResponseData(tbsResponseData)
            sp == signingParamsForPublicKey(priv, template.SignatureAlgorithm)
        IN  IF sp.err # "" THEN ErrorsNew(sp.err)
            ELSE
            LET signature == Signature(priv, sp.signerOpts.HashFunc, sp.signerOpts.PSS,
                                       <<tbsResponseDataDER>>)
                response == [TBSResponseData |-> tbsResponseData,
                             SignatureAlgorithm |-> sp.sigAlgo,
                             Signature |-> signature,
                             Certificates |->
                                 IF template.Certificate.isNil THEN <<>>
                                 ELSE << [parses |-> TRUE, cert |-> template.Certificate] >>]
                responseDER == MarshalBasicResponse(response)
            IN  [kind |-> "DER",
                 der |-> MarshalResponseASN1(
                            [Status |-> Success,
                             Response |-> [ResponseType |-> idPKIXOCSPBasic,
                                           Response |-> responseDER]])]

(***************************************************************************)
(* The pre-serialized error responses (src/ocsp.go 499-505): a SEQUENCE    *)
(* holding only the ENUMERATED status, 30 03 0A 01 xx.                     *)
(***************************************************************************)
ErrorResponse(status) ==
    [syntax |-> "ok", rest |-> 0, status |-> status, response |-> <<>>]

MalformedRequestErrorResponse == ErrorResponse(1)

InternalErrorErrorResponse == ErrorResponse(2)

TryLaterErrorResponse == ErrorResponse(3)

SigRequredErrorResponse == ErrorResponse(5)

UnauthorizedErrorResponse == ErrorResponse(6)

(***************************************************************************)
(* The inputs the calls are made with.                                     *)
(***************************************************************************)
Key(type, curve, id) == [type |-> type, curve |-> curve, id |-> id]

issuerKey == Key("RSA", "", 1)

responderKey == Key("RSA", "", 2)

otherKey == Key("RSA", "", 3)

ecdsaKey == Key("ECDSA", "P256", 4)

ed25519Key == Key("Ed25519", "", 5)

\* an ECDSA key on a curve other than P-224, P-256, P-384 and P-521
brainpoolKey == Key("ECDSA", "brainpoolP256r1", 6)

\* A parsed certificate: subject and TBS bytes are named by id; the
\* certificate was signed by signer with SHA256WithRSA.
Certificate(id, serial, key, signer) ==
    [isNil |-> FALSE,
     SerialNumber |-> serial,
     PublicKey |-> key,
     RawSubject |-> RawBytes("SEQUENCE", <<id>>, 0),
     RawSubjectPublicKeyInfo |-> [syntax |-> "ok", PublicKey |-> <<key.id>>],
     SignatureAlgorithm |-> "SHA256WithRSA",
     RawTBSCertificate |-> id,
     Signature |-> Signature(signer, "SHA256", FALSE, <<id>>)]

\* the issuing CA, self-signed
issuerCert == Certificate(1, 1, issuerKey, issuerKey)

\* a delegated responder certificate the issuer signed
responderCert == Certificate(2, 2, responderKey, issuerKey)

\* a certificate with the responder's key that the issuer did not sign
rogueCert == Certificate(3, 3, responderKey, otherKey)

\* a responder certificate with an ECDSA key, signed by the issuer
ecdsaCert == Certificate(4, 4, ecdsaKey, issuerKey)

\* the certificate whose status is asked for, with serial number n
SubjectCert(n) == Certificate(9, n, otherKey, issuerKey)

Issuers == {NilCertificate, issuerCert}

Extension(id, critical) == [Id |-> id, Critical |-> critical, Value |-> id]

ExtensionLists ==
    { <<>>, <<Extension(1, FALSE)>>, <<Extension(1, TRUE)>>,
      <<Extension(1, FALSE), Extension(2, TRUE)>> }

\* revoked-info structures on the wire: absent, without and with a reason
WireRevoked ==
    { <<>>, <<[revocationTime |-> 30, reason |-> <<>>]>>,
      <<[revocationTime |-> 30, reason |-> <<1>>]>> }

WireEntry(serial, hashOID, good, revoked, unknown, thisUpdate, exts) ==
    [certID |-> [hashAlgorithm |-> AlgorithmIdentifier(hashOID, NullRawValue),
                 issuerNameHash |-> <<7>>,
                 issuerKeyHash |-> <<8>>,
                 serialNumber |-> MarshalBigInt(serial)],
     good |-> good, revoked |-> revoked, unknown |-> unknown,
     thisUpdate |-> thisUpdate, nextUpdate |-> <<>>,
     singleExtensions |-> IF exts = <<>> THEN <<>> ELSE <<exts>>]

\* every shape of a single entry
AllEntries ==
    { WireEntry(serial, oid, g, r, u, 10, exts) :
        serial \in {1}, oid \in {oidSHA256, oidOther}, g \in BOOLEAN,
        r \in WireRevoked, u \in BOOLEAN, exts \in ExtensionLists }

\* entries told apart by serial number, status, thisUpdate and extensions,
\* for the lists: per serial a good one, a revoked one and a good one with a
\* critical extension
ListEntries ==
    UNION { { WireEntry(serial, oidSHA1, TRUE, <<>>, FALSE, 10, <<>>),
              WireEntry(serial, oidSHA1, FALSE,
                        <<[revocationTime |-> 30, reason |-> <<1>>]>>, FALSE, 10, <<>>),
              WireEntry(serial, oidSHA1, TRUE, <<>>, FALSE, 20, <<Extension(1, TRUE)>>) } :
            serial \in 1..MaxSerial }

RECURSIVE SeqsUpTo(_, _)
\* the sequences over S of length at most n
SeqsUpTo(S, n) ==
    IF n = 0 THEN {<<>>}
    ELSE LET shorter == SeqsUpTo(S, n - 1)
         IN  shorter \cup {Append(q, x) : q \in {r \in shorter : Len(r) = n - 1}, x \in S}

ResponderID(tag, bytes) == [Class |-> 2, Tag |-> tag, IsCompound |-> TRUE, Bytes |-> bytes]

byName == ResponderID(1, RawBytes("SEQUENCE", <<2>>, 0))

byKeyHash == ResponderID(2, RawBytes("OCTET STRING", <<5, 6>>, 0))

\* every shape of a responder id
AllResponderIDs ==
    { ResponderID(tag, RawBytes(inner, content, rest)) :
        tag \in 0..3, inner \in {"SEQUENCE", "OCTET STRING", "junk"},
        content \in {<<>>, <<5, 6>>}, rest \in {0, 1} }

\* the signature algorithm identifiers found in basic responses
SignatureAIs ==
    { AlgorithmIdentifier(oidSignatureSHA256WithRSA, NullRawValue),
      AlgorithmIdentifier(oidSignatureRSAPSS, pssParametersSHA256),
      AlgorithmIdentifier(oidSignatureRSAPSS,
          PSSWire(oidSHA256, "null", oidMGF1, oidSHA256, "null", 20, <<>>)),
      AlgorithmIdentifier(oidSignatureMD5WithRSA, NullRawValue),
      AlgorithmIdentifier(oidOther, emptyRawValue) }

sha256WithRSA == AlgorithmIdentifier(oidSignatureSHA256WithRSA, NullRawValue)

EmbeddedCert(parses, cert) == [parses |-> parses, cert |-> cert]

\* the certificate lists found in basic responses
CertificateLists ==
    LET first == { EmbeddedCert(TRUE, responderCert), EmbeddedCert(TRUE, rogueCert),
                   EmbeddedCert(FALSE, responderCert), EmbeddedCert(TRUE, issuerCert) }
    IN  {<<>>} \cup {<<c>> : c \in first}
               \cup {<<c, EmbeddedCert(TRUE, issuerCert)>> : c \in first}

\* the bytes of a basic response.  The signature was made by key with
\* SHA-256 (PSS or PKCS #1 v1.5) over the response data (covers) or over
\* other bytes.
WireBasic(rest, responderID, entries, ai, key, pss, covers, certs) ==
    LET tbs == [responderID |-> responderID, producedAt |-> 60,
                responses |-> entries, responseExtensions |-> <<>>]
    IN  [syntax |-> "ok", rest |-> rest,
         tbsResponseData |-> tbs,
         signatureAlgorithm |-> ai,
         signature |-> Signature(key, "SHA256", pss, IF covers THEN <<tbs>> ELSE <<>>),
         certificates |-> certs]

Envelope(rest, status, response) ==
    [syntax |-> "ok", rest |-> rest, status |-> status, response |-> response]

ResponseBytes(type, inner) == <<[responseType |-> type, response |-> inner]>>

\* a successful envelope around a basic response
Successful(inner) == Envelope(0, Success, ResponseBytes(idPKIXOCSPBasic, inner))

goodEntry == WireEntry(1, oidSHA1, TRUE, <<>>, FALSE, 10, <<>>)

\* a basic response signed by the issuer, and one with a broken signature
\* and an embedded certificate
Tails == { <<byName, issuerKey, TRUE, <<>>>>,
           <<byKeyHash, responderKey, FALSE, <<EmbeddedCert(TRUE, responderCert)>>>> }

\* the envelopes: every syntax, trailing data, status and response type
EnvelopeDERs ==
    LET inners == { BadDER,
                    WireBasic(0, byName, <<goodEntry>>, sha256WithRSA, issuerKey, FALSE, TRUE, <<>>),
                    WireBasic(1, byName, <<goodEntry>>, sha256WithRSA, issuerKey, FALSE, TRUE, <<>>),
                    WireBasic(0, byName, <<>>, sha256WithRSA, issuerKey, FALSE, TRUE, <<>>) }
        responses == {<<>>} \cup { ResponseBytes(type, inner) :
                         type \in {idPKIXOCSPBasic, oidOther}, inner \in inners }
    IN  {BadDER} \cup { Envelope(rest, status, response) :
                         rest \in {0, 1}, status \in 0..MaxWireStatus,
                         response \in responses }

\* the entry lists: every list of at most MaxResponses entries
SelectionDERs ==
    { Successful(WireBasic(0, t[1], entries, sha256WithRSA, t[2], FALSE, t[3], t[4])) :
        entries \in SeqsUpTo(ListEntries, MaxResponses), t \in Tails }

\* one entry of every shape, alone or behind an entry with another serial
EntryDERs ==
    { Successful(WireBasic(0, t[1], prefix \o <<e>>, sha256WithRSA, t[2], FALSE, t[3], t[4])) :
        e \in AllEntries, t \in Tails,
        prefix \in {<<>>, <<WireEntry(MaxSerial + 1, oidSHA1, TRUE, <<>>, FALSE, 20, <<>>)>>} }

\* every responder id, signature and certificate list
VerificationDERs ==
    { Successful(WireBasic(0, rid, <<e>>, ai, key, pss, covers, certs)) :
        rid \in {byName, byKeyHash, ResponderID(0, RawBytes("SEQUENCE", <<2>>, 0))},
        e \in {goodEntry, WireEntry(1, oidSHA1, FALSE, <<>>, FALSE, 10, <<Extension(1, TRUE)>>)},
        ai \in SignatureAIs, key \in {issuerKey, responderKey, otherKey},
        pss \in BOOLEAN, covers \in BOOLEAN, certs \in CertificateLists }

ResponderDERs ==
    { Successful(WireBasic(0, rid, <<goodEntry>>, sha256WithRSA, issuerKey, FALSE, covers, <<>>)) :
        rid \in AllResponderIDs, covers \in BOOLEAN }

ResponseDERs ==
    EnvelopeDERs \cup SelectionDERs \cup EntryDERs \cup VerificationDERs \cup ResponderDERs

\* the certificate argument: nil, or a certificate with one of the serial
\* numbers found in entries, or with one found in none
CertArguments == {NilCertificate} \cup {SubjectCert(n) : n \in 1..(MaxSerial + 1)}

\* the requests handed to Marshal
Requests ==
    [HashAlgorithm : {"SHA1", "SHA256", "SHA384", "SHA512", "MD5", NoHash},
     IssuerNameHash : {<<>>, <<0, 0>>, <<171>>},
     IssuerKeyHash : {<<>>, <<1>>},
     SerialNumber : {-129, -128, -1, 0, 1, 127, 128, 255, 256, 65535},
     Extensions : {<<>>, <<Extension(1, FALSE)>>}]

WireCertID(oid, serial) ==
    [hashAlgorithm |-> AlgorithmIdentifier(oid, NullRawValue),
     issuerNameHash |-> <<7, serial>>,
     issuerKeyHash |-> <<8>>,
     serialNumber |-> MarshalBigInt(serial)]

\* the request bytes handed to ParseRequest: every list of at most
\* MaxResponses entries, with and without extensions, signature and
\* trailing data
RequestDERs ==
    {BadDER} \cup
    { [syntax |-> "ok", rest |-> rest, version |-> <<>>,
       requestList |-> list, requestExtensions |-> exts, optionalSignature |-> sig] :
        rest \in {0, 1},
        list \in SeqsUpTo({WireCertID(oid, serial) :
                            oid \in {oidSHA1, oidSHA512, oidOther},
                            serial \in 1..MaxSerial}, MaxResponses),
        exts \in {<<>>, <<<<Extension(1, FALSE)>>>>},
        sig \in {<<>>, <<[signatureAlgorithm |-> sha256WithRSA,
                          signature |-> Signature(otherKey, "SHA256", FALSE, <<>>)]>>} }

\* the templates handed to CreateResponse
Templates ==
    [Status : {Good, Revoked, Unknown, ServerFailed},
     SerialNumber : {1, 300},
     ThisUpdate : {Time(10, 0)},
     NextUpdate : {Time(99, 0)},
     RevokedAt : {ZeroTime, Time(61, 5)},
     RevocationReason : {0, 1},
     IssuerHash : {NoHash, "SHA256", "MD5"},
     ExtraExtensions : {<<>>, <<Extension(1, FALSE)>>, <<Extension(1, TRUE)>>},
     ResponseExtraExtensions : {<<>>},
     SignatureAlgorithm : {UnknownSignatureAlgorithm, "SHA256WithRSAPSS",
                           "MD5WithRSA", "DSAWithSHA1", "MD2WithRSA", "PureEd25519"},
     Certificate : {NilCertificate, responderCert, rogueCert}]

\* the signers handed to CreateResponse, by public key
Signers == {issuerKey, responderKey, ecdsaKey, ed25519Key, brainpoolKey}

\* the public keys signingParamsForPublicKey is called with
PublicKeys ==
    { issuerKey, ed25519Key, brainpoolKey, Key("DSA", "", 7) }
      \cup { Key("ECDSA", curve, 4) : curve \in {"P224", "P256", "P384", "P521"} }

\* the x509.SignatureAlgorithm values requested: 0, the registry's, and
\* two the registry does not hold
RequestedSigAlgos ==
    { UnknownSignatureAlgorithm, "PureEd25519", "SignatureAlgorithm(99)" }
      \cup { signatureAlgorithmDetails[i].algo : i \in DOMAIN signatureAlgorithmDetails }

\* raw parameters of the hash identifiers inside RSASSA-PSS-params
HashParameterForms == {"absent", "null", "junk"}

\* the salt lengths on the wire: the digest lengths of SHA-1 to SHA-512
SaltLengths == {20, 32, 48, 64}

\* the algorithm identifiers getSignatureAlgorithmFromAI is called with: the
\* RSA-PSS object identifier with every shape of parameters, and the
\* registry's other object identifiers
AlgorithmIdentifiers ==
    { AlgorithmIdentifier(oidSignatureRSAPSS,
                          PSSWire(hash, hashParams, mgf, mgfHash, mgfHashParams, salt, trailer)) :
        hash \in {oidSHA1, oidSHA256, oidSHA384, oidSHA512},
        hashParams \in HashParameterForms,
        mgf \in {oidMGF1, oidOther},
        mgfHash \in {oidNil, oidSHA256, oidSHA384, oidSHA512},
        mgfHashParams \in HashParameterForms,
        salt \in SaltLengths,
        trailer \in {<<>>, <<1>>, <<2>>} }
      \cup { AlgorithmIdentifier(oidSignatureRSAPSS, params) :
                params \in {emptyRawValue, NullRawValue, [form |-> "junk"]} }
      \cup { AlgorithmIdentifier(oid, emptyRawValue) :
                oid \in {oidOther} \cup { signatureAlgorithmDetails[i].oid :
                                            i \in DOMAIN signatureAlgorithmDetails } }

\* an issuer certificate whose RawSubjectPublicKeyInfo does not decode
brokenIssuer == [issuerCert EXCEPT !.RawSubjectPublicKeyInfo = [syntax |-> "bad"]]

\* the value of time.Now()
Now == Time(125, 7)

(***************************************************************************)
(* The state machine: one call from the initial state, and a parse of the  *)
(* bytes a Marshal or CreateResponse call returned.                        *)
(***************************************************************************)
Init ==
    /\ call = [op |-> "none"]
    /\ ret = [kind |-> "none"]

CallParseResponseForCert ==
    /\ call.op = "none"
    /\ \E der \in ResponseDERs, cert \in CertArguments, issuer \in Issuers :
        /\ call' = [op |-> "ParseResponseForCert", der |-> der, cert |-> cert,
                    issuer |-> issuer, created |-> <<>>]
        /\ ret' = ParseResponseForCert(der, cert, issuer)

CallParseResponse ==
    /\ call.op = "none"
    /\ \E der \in ResponseDERs, issuer \in Issuers :
        /\ call' = [op |-> "ParseResponse", der |-> der, cert |-> NilCertificate,
                    issuer |-> issuer, created |-> <<>>]
        /\ ret' = ParseResponse(der, issuer)

CallParseRequest ==
    /\ call.op = "none"
    /\ \E der \in RequestDERs :
        /\ call' = [op |-> "ParseRequest", der |-> der, marshalled |-> <<>>]
        /\ ret' = ParseRequest(der)

CallMarshal ==
    /\ call.op = "none"
    /\ \E req \in Requests :
        /\ call' = [op |-> "Marshal", req |-> req]
        /\ ret' = Marshal(req)

\* ParseRequest on the bytes Marshal returned
ParseMarshalled ==
    /\ call.op = "Marshal"
    /\ ret.kind = "DER"
    /\ call' = [op |-> "ParseRequest", der |-> ret.der, marshalled |-> <<call.req>>]
    /\ ret' = ParseRequest(ret.der)

CallCreateResponse ==
    /\ call.op = "none"
    /\ \E issuer \in {issuerCert, brokenIssuer}, template \in Templates, priv \in Signers :
        /\ issuer = brokenIssuer => priv = issuerKey /\ template.Certificate.isNil
        /\ call' = [op |-> "CreateResponse", issuer |-> issuer,
                    responderCert |-> responderCert, template |-> template, priv |-> priv]
        /\ ret' = CreateResponse(issuer, responderCert, template, priv, Now)

\* ParseResponseForCert on the bytes CreateResponse returned, for the
\* certificate the template names or for none
ParseCreated ==
    /\ call.op = "CreateResponse"
    /\ ret.kind = "DER"
    /\ \E cert \in {NilCertificate, SubjectCert(call.template.SerialNumber)},
          issuer \in Issuers :
        /\ call' = [op |-> "ParseResponseForCert", der |-> ret.der, cert |-> cert,
                    issuer |-> issuer,
                    created |-> <<[template |-> call.template, priv |-> call.priv]>>]
        /\ ret' = ParseResponseForCert(ret.der, cert, issuer)

\* signingParamsForPublicKey, as CreateResponse calls it
CallSigningParamsForPublicKey ==
    /\ call.op = "none"
    /\ \E pub \in PublicKeys, requestedSigAlgo \in RequestedSigAlgos :
        /\ call' = [op |-> "signingParamsForPublicKey", pub |-> pub,
                    requestedSigAlgo |-> requestedSigAlgo]
        /\ ret' = LET sp == signingParamsForPublicKey(pub, requestedSigAlgo)
                  IN  IF sp.err # "" THEN ErrorsNew(sp.err)
                      ELSE [kind |-> "SigningParams", signerOpts |-> sp.signerOpts,
                            sigAlgo |-> sp.sigAlgo]

\* getSignatureAlgorithmFromAI, as ParseResponseForCert calls it
CallGetSignatureAlgorithmFromAI ==
    /\ call.op = "none"
    /\ \E ai \in AlgorithmIdentifiers :
        /\ call' = [op |-> "getSignatureAlgorithmFromAI", ai |-> ai, signingParams |-> <<>>]
        /\ ret' = [kind |-> "SignatureAlgorithm", algo |-> getSignatureAlgorithmFromAI(ai)]

\* getSignatureAlgorithmFromAI on the algorithm identifier
\* signingParamsForPublicKey returned
ResolveSigningParams ==
    /\ call.op = "signingParamsForPublicKey"
    /\ ret.kind = "SigningParams"
    /\ call' = [op |-> "getSignatureAlgorithmFromAI", ai |-> ret.sigAlgo,
                signingParams |-> <<[pub |-> call.pub,
                                     requestedSigAlgo |-> call.requestedSigAlgo]>>]
    /\ ret' = [kind |-> "SignatureAlgorithm", algo |-> getSignatureAlgorithmFromAI(ret.sigAlgo)]

Next ==
    \/ CallParseResponseForCert
    \/ CallParseResponse
    \/ CallParseRequest
    \/ CallMarshal
    \/ ParseMarshalled
    \/ CallCreateResponse
    \/ ParseCreated
    \/ CallSigningParamsForPublicKey
    \/ CallGetSignatureAlgorithmFromAI
    \/ ResolveSigningParams

Spec == Init /\ [][Next]_vars

(***************************************************************************)
(* The claims.                                                             *)
(***************************************************************************)
\* the state holds a call of ParseResponse or ParseResponseForCert
IsResponseParse == call.op \in {"ParseResponseForCert", "ParseResponse"}

\* ... whose bytes decode as a top-level response with no trailing bytes
EnvelopeDecoded == IsResponseParse /\ call.der.syntax = "ok" /\ call.der.rest = 0

\* ... with status success and the basic response type
EnvelopeAccepted ==
    /\ EnvelopeDecoded
    /\ call.der.status = Success
    /\ call.der.response # <<>>
    /\ call.der.response[1].responseType = idPKIXOCSPBasic

\* ... whose response bytes decode as a basic response with no trailing bytes
BasicDecoded ==
    /\ EnvelopeAccepted
    /\ call.der.response[1].response.syntax = "ok"
    /\ call.der.response[1].response.rest = 0

\* the basic response and its entries on the wire
WireBasicResponse == call.der.response[1].response

WireResponses == WireBasicResponse.tbsResponseData.responses

WireSerial(i) == UnmarshalBigInt(WireResponses[i].certID.serialNumber)

\* the entries whose serial number is that of the cert argument
Matching == {i \in DOMAIN WireResponses : WireSerial(i) = call.cert.SerialNumber}

\* entry i of the wire is the first whose serial number is cert's
FirstMatch(i) == i \in Matching /\ \A j \in 1..(i - 1) : j \notin Matching

\* the status the precedence Good > Unknown > Revoked gives to wire flags
Precedence(good, unknown) == IF good THEN Good ELSE IF unknown THEN Unknown ELSE Revoked

\* the Response returned holds the fields of wire entry e
ReturnsEntry(e) ==
    /\ ret.kind = "Response"
    /\ ret.resp.SerialNumber = UnmarshalBigInt(e.certID.serialNumber)
    /\ ret.resp.ThisUpdate = Time(e.thisUpdate, 0)
    /\ ret.resp.NextUpdate = IF e.nextUpdate = <<>> THEN ZeroTime ELSE Time(e.nextUpdate[1], 0)
    /\ ret.resp.Status = Precedence(e.good, e.unknown)
    /\ ret.resp.Extensions = IF e.singleExtensions = <<>> THEN <<>> ELSE e.singleExtensions[1]

\* C1: an input that decodes as a top-level response with no trailing bytes
\* and a status other than success yields ResponseError with that status,
\* whatever its response type and response bytes; the five pre-serialized
\* error responses yield ResponseError 1, 2, 3, 5 and 6.
C1_ErrorResponse ==
    /\ EnvelopeDecoded /\ call.der.status # Success
         => ret = [kind |-> "ResponseError", Status |-> call.der.status]
    /\ IsResponseParse =>
         /\ call.der = MalformedRequestErrorResponse => ret = ResponseError(Malformed)
         /\ call.der = InternalErrorErrorResponse => ret = ResponseError(InternalError)
         /\ call.der = TryLaterErrorResponse => ret = ResponseError(TryLater)
         /\ call.der = SigRequredErrorResponse => ret = ResponseError(SignatureRequired)
         /\ call.der = UnauthorizedErrorResponse => ret = ResponseError(Unauthorized)

\* C1 witness: status sigRequired around an unknown response type and bytes
\* that are no basic response
C1_Witness ==
    /\ call.op = "ParseResponse"
    /\ call.der.syntax = "ok"
    /\ call.der.status = SignatureRequired
    /\ call.der.response # <<>>
    /\ call.der.response[1].responseType = oidOther
    /\ call.der.response[1].response = BadDER
    /\ ret = ResponseError(SignatureRequired)

C3_FirstStatusForNilCert ==
    BasicDecoded /\ call.cert.isNil /\ Len(WireResponses) > 0 =>
        LET first == ParseResponseForCert(call.der, SubjectCert(WireSerial(1)), call.issuer)
        IN  first.kind = "Response" => ret = first

\* the entry count and the cert argument let an entry be selected
SelectionPasses ==
    /\ Len(WireResponses) > 0
    /\ call.cert.isNil => Len(WireResponses) = 1
    /\ ~call.cert.isNil => Matching # {}

\* the wire entry the call selects, when SelectionPasses
SelectedEntry ==
    IF call.cert.isNil THEN WireResponses[1]
    ELSE WireResponses[CHOOSE i \in DOMAIN WireResponses : FirstMatch(i)]

\* the responder id on the wire is a by-name or by-key-hash choice that decodes
ResponderPasses ==
    LET rid == WireBasicResponse.tbsResponseData.responderID
    IN  /\ rid.Bytes.rest = 0
        /\ \/ rid.Tag = 1 /\ rid.Bytes.inner = "SEQUENCE"
           \/ rid.Tag = 2 /\ rid.Bytes.inner = "OCTET STRING"

\* der with the three status elements of every entry replaced, signed as
\* der is: a signature over the response data stays one
WithFlags(der, good, revoked, unknown) ==
    LET inner == der.response[1].response
        tbs == inner.tbsResponseData
        tbs2 == [tbs EXCEPT !.responses =
                    [i \in DOMAIN tbs.responses |->
                        [tbs.responses[i] EXCEPT !.good = good, !.revoked = revoked,
                                                 !.unknown = unknown]]]
        sig2 == IF inner.signature.over = <<tbs>>
                  THEN [inner.signature EXCEPT !.over = <<tbs2>>]
                  ELSE inner.signature
    IN  [der EXCEPT !.response =
            << [responseType |-> der.response[1].responseType,
                response |-> [inner EXCEPT !.tbsResponseData = tbs2, !.signature = sig2]] >>]

\* C4: the Status returned is Good when the selected entry has the Good
\* flag, else Unknown when it has the Unknown flag, else Revoked (also with
\* none of the three present); and no combination of the three elements is
\* rejected: the same response with any other combination is accepted
\* exactly when this one is, with the Status the precedence gives.
C4_StatusPrecedence ==
    BasicDecoded =>
        /\ ret.kind = "Response" =>
             ret.resp.Status = Precedence(SelectedEntry.good, SelectedEntry.unknown)
        /\ \A good \in BOOLEAN, unknown \in BOOLEAN, revoked \in WireRevoked :
             LET alt == ParseResponseForCert(WithFlags(call.der, good, revoked, unknown),
                                             call.cert, call.issuer)
             IN  /\ (alt.kind = "Response") = (ret.kind = "Response")
                 /\ alt.kind = "Response" => alt.resp.Status = Precedence(good, unknown)

\* C4 witness: all three elements present, and Good is returned
C4_Witness ==
    /\ BasicDecoded /\ SelectionPasses
    /\ SelectedEntry.good /\ SelectedEntry.unknown /\ SelectedEntry.revoked # <<>>
    /\ ret.kind = "Response"
    /\ ret.resp.Status = Good

\* the response signature verifies under the key of the first embedded
\* certificate with the resolved signature algorithm
EmbeddedSignatureVerifies ==
    CheckSignature(WireBasicResponse.certificates[1].cert,
                   getSignatureAlgorithmFromAI(WireBasicResponse.signatureAlgorithm),
                   <<WireBasicResponse.tbsResponseData>>,
                   WireBasicResponse.signature)

\* C5: a response with an embedded certificate whose response signature
\* does not verify under the first embedded certificate's key fails with a
\* ParseError and returns no Response, with a nil issuer too; when an entry
\* is selected and the responder id is accepted the error is "bad signature
\* on embedded certificate".
C5_EmbeddedSignature ==
    /\ BasicDecoded
    /\ Len(WireBasicResponse.certificates) > 0
    /\ WireBasicResponse.certificates[1].parses
    /\ ~EmbeddedSignatureVerifies
    => /\ ret.kind = "ParseError"
       /\ SelectionPasses /\ ResponderPasses =>
            ret = ParseError("bad signature on embedded certificate")

\* C5 witness: a nil issuer, an embedded certificate and a signature made
\* by another key
C5_Witness ==
    /\ BasicDecoded
    /\ call.issuer.isNil
    /\ Len(WireBasicResponse.certificates) > 0
    /\ WireBasicResponse.certificates[1].parses
    /\ WireBasicResponse.signature.key # WireBasicResponse.certificates[1].cert.PublicKey
    /\ ret = ParseError("bad signature on embedded certificate")

\* the selected wire entry has an extension marked critical
SelectedEntryHasCritical ==
    /\ SelectedEntry.singleExtensions # <<>>
    /\ \E j \in DOMAIN SelectedEntry.singleExtensions[1] :
         SelectedEntry.singleExtensions[1][j].Critical

\* C6: when the selected entry has an extension marked critical the call
\* returns an error and no Response.
C6_CriticalExtension ==
    BasicDecoded /\ SelectionPasses /\ SelectedEntryHasCritical =>
        IsError(ret) /\ ret.kind # "Response"

\* C6 witness: a validly signed response checked against the issuer, with a
\* known hash, whose second extension is critical
C6_Witness ==
    /\ BasicDecoded /\ SelectionPasses /\ SelectedEntryHasCritical
    /\ ~SelectedEntry.singleExtensions[1][1].Critical
    /\ ~call.issuer.isNil
    /\ ret = ParseError("unsupported critical extension")

\* C7: every error ParseResponse and ParseResponseForCert return is a
\* ParseError or a ResponseError.
C7_OnlyParseOrResponseErrors ==
    IsResponseParse /\ ret.kind # "Response" =>
        ret.kind \in {"ParseError", "ResponseError"}

\* C8: ParseRequest returns a ParseError and no Request for every request
\* that decodes and includes the optional signature.
C8_SignedRequestRejected ==
    /\ call.op = "ParseRequest"
    /\ call.der.syntax = "ok"
    /\ call.der.optionalSignature # <<>>
    => ret.kind = "ParseError"

\* the four hashes Marshal knows
SupportedHashes == {"SHA1", "SHA256", "SHA384", "SHA512"}

\* C9: Marshal succeeds exactly for the four supported hashes and fails
\* with "unknown hash algorithm" and no bytes otherwise; ParseRequest on the
\* bytes Marshal returned succeeds and returns the request's HashAlgorithm,
\* IssuerNameHash, IssuerKeyHash and SerialNumber.
C9_RequestRoundTrip ==
    /\ call.op = "Marshal" =>
         IF call.req.HashAlgorithm \in SupportedHashes
           THEN ret.kind = "DER"
           ELSE ret = [kind |-> "errors.errorString", msg |-> "unknown hash algorithm"]
    /\ call.op = "ParseRequest" /\ call.marshalled # <<>> =>
         /\ ret.kind = "Request"
         /\ ret.req.HashAlgorithm = call.marshalled[1].HashAlgorithm
         /\ ret.req.IssuerNameHash = call.marshalled[1].IssuerNameHash
         /\ ret.req.IssuerKeyHash = call.marshalled[1].IssuerKeyHash
         /\ ret.req.SerialNumber = call.marshalled[1].SerialNumber

\* C9 witness: a SHA-384 request with a negative two-octet serial number
\* and two different hashes comes back
C9_Witness ==
    /\ call.op = "ParseRequest" /\ call.marshalled # <<>>
    /\ call.marshalled[1].HashAlgorithm = "SHA384"
    /\ call.marshalled[1].SerialNumber = -129
    /\ call.marshalled[1].IssuerNameHash = <<0, 0>>
    /\ call.marshalled[1].IssuerKeyHash = <<1>>
    /\ call.der.requestList[1].serialNumber = <<255, 127>>
    /\ ret.kind = "Request"
    /\ ret.req.SerialNumber = -129

\* the state holds a parse of the bytes CreateResponse returned for a
\* template with status Good, Unknown or Revoked, for a certificate with
\* the template's serial number
RoundTrip ==
    /\ call.op = "ParseResponseForCert"
    /\ call.created # <<>>
    /\ call.created[1].template.Status \in {Good, Unknown, Revoked}
    /\ ~call.cert.isNil

\* the parse returned the template's status, serial number and, for
\* Revoked, revocation time (to the second) and reason
ReturnsTemplate(t) ==
    /\ ret.kind = "Response"
    /\ ret.resp.Status = t.Status
    /\ ret.resp.SerialNumber = t.SerialNumber
    /\ t.Status = Revoked =>
         /\ ret.resp.RevokedAt = Time(t.RevokedAt.sec, 0)
         /\ ret.resp.RevocationReason = t.RevocationReason

\* the signature checks the parse makes are ones the created response
\* passes: made by the issuer's key when no certificate is embedded, by the
\* embedded certificate's key otherwise, that certificate being signed by
\* the issuer, and not with MD5
SignatureChainAccepted(t, priv, issuer) ==
    IF t.Certificate.isNil
      THEN issuer.isNil \/ (priv = issuer.PublicKey /\ t.SignatureAlgorithm # "MD5WithRSA")
      ELSE /\ priv = t.Certificate.PublicKey
           /\ t.SignatureAlgorithm # "MD5WithRSA"
           /\ issuer.isNil \/ t.Certificate.Signature.key = issuer.PublicKey

\* C10 as stated: the round trip through CreateResponse and
\* ParseResponseForCert succeeds for every template with status Good,
\* Unknown or Revoked and returns the template's status, serial number and
\* revocation time and reason (here parsed with the issuer it was created
\* with, for responses whose signature that issuer verifies).
C10_RoundTripEveryTemplate ==
    /\ RoundTrip
    /\ call.issuer = issuerCert
    /\ SignatureChainAccepted(call.created[1].template, call.created[1].priv, call.issuer)
    => ReturnsTemplate(call.created[1].template)

\* C10 amended: the round trip succeeds for every such template that has no
\* critical extension in ExtraExtensions and whose signature passes the
\* parse's checks; and whenever the parse of a created response succeeds it
\* returns the template's status, serial number and, for Revoked, the
\* revocation time (to the second) and reason, also for a zero RevokedAt
\* with reason 0.
C10_RoundTrip ==
    RoundTrip =>
        LET t == call.created[1].template
        IN  /\ /\ ~HasCriticalExtension(t.ExtraExtensions)
               /\ SignatureChainAccepted(t, call.created[1].priv, call.issuer)
               => ret.kind = "Response"
            /\ HasCriticalExtension(t.ExtraExtensions) => ret.kind # "Response"
            /\ ret.kind = "Response" => ReturnsTemplate(t)

\* C10 witness: Revoked with a zero RevokedAt and reason 0 puts none of the
\* three status elements on the wire and comes back as Revoked
C10_Witness ==
    /\ RoundTrip
    /\ ~call.issuer.isNil
    /\ call.created[1].template.Status = Revoked
    /\ call.created[1].template.RevokedAt = ZeroTime
    /\ call.created[1].template.RevocationReason = 0
    /\ ~WireResponses[1].good /\ ~WireResponses[1].unknown /\ WireResponses[1].revoked = <<>>
    /\ ReturnsTemplate(call.created[1].template)
    /\ ret.resp.RevokedAt = ZeroTime

\* C11: every Response a parse returns has exactly one of RawResponderName
\* and ResponderKeyHash non-empty, for every accepted responder id, a
\* by-key-hash one with an empty octet string included; and a responder id
\* whose tag is neither 1 nor 2 is rejected with a ParseError.
C11_ExactlyOneResponderField ==
    /\ IsResponseParse /\ ret.kind = "Response" =>
         (ret.resp.RawResponderName # NoBytes) # (ret.resp.ResponderKeyHash # <<>>)
    /\ /\ BasicDecoded /\ SelectionPasses
       /\ WireBasicResponse.tbsResponseData.responderID.Tag \notin {1, 2}
       => ret = ParseError("invalid responder id tag")

\* C12: in every Response a parse returns, a Status of Good or Unknown
\* comes with a zero RevokedAt and RevocationReason 0, also when the entry
\* carries a revoked-info structure; a Status of Revoked comes with the
\* revocation time and reason of the entry's revoked-info structure, the
\* reason being 0 when absent (and both zero when the structure is absent).
C12_RevocationMetadata ==
    IsResponseParse /\ ret.kind = "Response" =>
        LET revoked == SelectedEntry.revoked
        IN  /\ ret.resp.Status \in {Good, Unknown, Revoked}
            /\ ret.resp.Status \in {Good, Unknown} =>
                 ret.resp.RevokedAt = ZeroTime /\ ret.resp.RevocationReason = 0
            /\ ret.resp.Status = Revoked /\ revoked = <<>> =>
                 ret.resp.RevokedAt = ZeroTime /\ ret.resp.RevocationReason = 0
            /\ ret.resp.Status = Revoked /\ revoked # <<>> =>
                 /\ ret.resp.RevokedAt = Time(revoked[1].revocationTime, 0)
                 /\ ret.resp.RevocationReason =
                        IF revoked[1].reason = <<>> THEN 0 ELSE revoked[1].reason[1]

\* C12 witness: an Unknown entry that also carries a revoked-info structure
\* with a reason comes back without revocation data
C12_Witness ==
    /\ IsResponseParse /\ ret.kind = "Response"
    /\ ret.resp.Status = Unknown
    /\ SelectedEntry.revoked # <<>>
    /\ SelectedEntry.revoked[1].reason = <<1>>
    /\ ret.resp.RevokedAt = ZeroTime
    /\ ret.resp.RevocationReason = 0

\* C12 witness of the Revoked case: revoked-info without a reason
C12_RevokedWithoutReason ==
    /\ IsResponseParse /\ ret.kind = "Response"
    /\ ret.resp.Status = Revoked
    /\ SelectedEntry.revoked # <<>>
    /\ SelectedEntry.revoked[1].reason = <<>>
    /\ ret.resp.RevokedAt = Time(30, 0)
    /\ ret.resp.RevocationReason = 0

\* the three hashes RSA-PSS is resolved for
PSSHashes == {"SHA256", "SHA384", "SHA512"}

\* the PSS signature algorithm of hash h
PSSAlgorithm(h) == h \o "WithRSAPSS"

\* the registry's PSS parameters of hash h
PSSTemplate(h) ==
    CASE h = "SHA256" -> pssParametersSHA256
      [] h = "SHA384" -> pssParametersSHA384
      [] h = "SHA512" -> pssParametersSHA512

\* the digest length of hash h in octets
DigestLength(h) ==
    CASE h = "SHA256" -> 32
      [] h = "SHA384" -> 48
      [] h = "SHA512" -> 64

\* PSS parameters p on the wire depart from the ones accepted for hash h
Deviates(p, h) ==
    \/ p.Hash # hashOIDs[h]
    \/ p.SaltLength # DigestLength(h)
    \/ p.MGFHash # p.Hash
    \/ p.MGF # oidMGF1
    \/ p.HashParams \notin {"absent", "null"}
    \/ p.MGFHashParams \notin {"absent", "null"}
    \/ p.TrailerField \notin {<<>>, <<1>>}

\* C13: the RSA-PSS object identifier with the registry's PSS parameters of
\* SHA-256, SHA-384 or SHA-512, which is what signingParamsForPublicKey
\* returns for an RSA key and that PSS algorithm, resolves to that PSS
\* algorithm; RSA-PSS parameters resolve to the PSS algorithm of hash h
\* exactly when nothing deviates for h (salt length, MGF1 hash, MGF, hash
\* parameters, trailer field) and to UnknownSignatureAlgorithm otherwise.
C13_PSSResolution ==
    call.op = "getSignatureAlgorithmFromAI" =>
        /\ ret.kind = "SignatureAlgorithm"
        /\ \A h \in PSSHashes :
            /\ call.ai = AlgorithmIdentifier(oidSignatureRSAPSS, PSSTemplate(h)) =>
                 ret.algo = PSSAlgorithm(h)
            /\ /\ call.signingParams # <<>>
               /\ call.signingParams[1].pub.type = "RSA"
               /\ call.signingParams[1].requestedSigAlgo = PSSAlgorithm(h)
               => /\ call.ai = AlgorithmIdentifier(oidSignatureRSAPSS, PSSTemplate(h))
                  /\ ret.algo = PSSAlgorithm(h)
        /\ call.ai.Algorithm = oidSignatureRSAPSS =>
             IF call.ai.Parameters.form # "pss"
               THEN ret.algo = UnknownSignatureAlgorithm
               ELSE /\ \A h \in PSSHashes :
                         (ret.algo = PSSAlgorithm(h)) = ~Deviates(call.ai.Parameters, h)
                    /\ ret.algo \in {PSSAlgorithm(h) : h \in PSSHashes}
                                       \cup {UnknownSignatureAlgorithm}

\* C13 witness: the identifier returned for an RSA key with SHA384WithRSAPSS
\* requested resolves to SHA384WithRSAPSS
C13_Witness ==
    /\ call.op = "getSignatureAlgorithmFromAI"
    /\ call.signingParams # <<>>
    /\ call.signingParams[1].requestedSigAlgo = "SHA384WithRSAPSS"
    /\ call.ai.Parameters.SaltLength = 48
    /\ ret.algo = "SHA384WithRSAPSS"

\* C13 witness of a deviation: SHA-512 parameters with a salt length of 32
C13_WrongSaltLength ==
    /\ call.op = "getSignatureAlgorithmFromAI"
    /\ call.ai.Algorithm = oidSignatureRSAPSS
    /\ call.ai.Parameters.form = "pss"
    /\ ~Deviates([call.ai.Parameters EXCEPT !.SaltLength = 64], "SHA512")
    /\ call.ai.Parameters.SaltLength = 32
    /\ ret.algo = UnknownSignatureAlgorithm

\* the registry holds an entry for algo
InRegistry(algo) ==
    \E i \in DOMAIN signatureAlgorithmDetails : signatureAlgorithmDetails[i].algo = algo

\* the registry's entry for algo
RegistryEntry(algo) ==
    signatureAlgorithmDetails[CHOOSE i \in DOMAIN signatureAlgorithmDetails :
                                  signatureAlgorithmDetails[i].algo = algo]

\* the hash that goes with an ECDSA curve
CurveHash(curve) ==
    CASE curve \in {"P224", "P256"} -> "SHA256"
      [] curve = "P384" -> "SHA384"
      [] curve = "P521" -> "SHA512"

\* the cases in which no signing parameters exist for key pub and the
\* requested algorithm algo
SigningRejected(pub, algo) ==
    \/ pub.type \notin {"RSA", "ECDSA"}
    \/ pub.type = "ECDSA" /\ pub.curve \notin {"P224", "P256", "P384", "P521"}
    \/ /\ algo # UnknownSignatureAlgorithm
       /\ \/ ~InRegistry(algo)
          \/ RegistryEntry(algo).pubKeyAlgo # pub.type
          \/ RegistryEntry(algo).hash = NoHash

\* the parameters chosen from the key alone
KeyDefaults(pub) ==
    IF pub.type = "RSA"
      THEN [kind |-> "SigningParams", signerOpts |-> SignerOpts("SHA256", FALSE),
            sigAlgo |-> AlgorithmIdentifier(oidSignatureSHA256WithRSA, NullRawValue)]
      ELSE [kind |-> "SigningParams", signerOpts |-> SignerOpts(CurveHash(pub.curve), FALSE),
            sigAlgo |-> AlgorithmIdentifier(
                            RegistryEntry("ECDSAWith" \o CurveHash(pub.curve)).oid,
                            emptyRawValue)]

\* C14: signingParamsForPublicKey returns an error exactly when the key is
\* neither RSA nor ECDSA, the curve is not P-224, P-256, P-384 or P-521, or
\* an algorithm is requested that the registry does not hold, that is of
\* another key kind, or that has no hash; CreateResponse then returns no
\* bytes.  With nothing requested an RSA key gives SHA-256 with PKCS#1 v1.5
\* and an ECDSA key the hash of its curve; otherwise the hash and the
\* algorithm identifier are the requested registry entry's, a PSS entry
\* giving PSS options with the salt length equal to the hash length.
C14_SigningParams ==
    /\ call.op = "signingParamsForPublicKey" =>
         LET pub == call.pub
             algo == call.requestedSigAlgo
         IN  /\ ret.kind \in {"errors.errorString", "SigningParams"}
             /\ (ret.kind = "errors.errorString") = SigningRejected(pub, algo)
             /\ ret.kind = "SigningParams" /\ algo = UnknownSignatureAlgorithm =>
                  ret = KeyDefaults(pub)
             /\ ret.kind = "SigningParams" /\ algo # UnknownSignatureAlgorithm =>
                  /\ ret.signerOpts.HashFunc = RegistryEntry(algo).hash
                  /\ ret.signerOpts.PSS = RegistryEntry(algo).isRSAPSS
                  /\ ret.signerOpts.PSS =>
                       ret.signerOpts.SaltLength = "PSSSaltLengthEqualsHash"
                  /\ ret.sigAlgo = AlgorithmIdentifier(RegistryEntry(algo).oid,
                                                       RegistryEntry(algo).params)
    /\ call.op = "CreateResponse" =>
         /\ SigningRejected(call.priv, call.template.SignatureAlgorithm) =>
              IsError(ret) /\ ret.kind # "DER"
         /\ /\ ~SigningRejected(call.priv, call.template.SignatureAlgorithm)
            /\ call.issuer = issuerCert
            /\ call.template.IssuerHash \in SupportedHashes \cup {NoHash}
            => ret.kind = "DER"

\* C14 witness: SHA512WithRSAPSS requested for an RSA key gives PSS options
\* and the PSS identifier
C14_Witness ==
    /\ call.op = "signingParamsForPublicKey"
    /\ call.pub.type = "RSA"
    /\ call.requestedSigAlgo = "SHA512WithRSAPSS"
    /\ ret.kind = "SigningParams"
    /\ ret.signerOpts = SignerOpts("SHA512", TRUE)
    /\ ret.sigAlgo = AlgorithmIdentifier(oidSignatureRSAPSS, pssParametersSHA512)

\* C14 witness of the error reaching the caller: MD2WithRSA requested of
\* CreateResponse with an RSA signer
C14_CreateResponseRejects ==
    /\ call.op = "CreateResponse"
    /\ call.priv.type = "RSA"
    /\ call.template.SignatureAlgorithm = "MD2WithRSA"
    /\ ret = [kind |-> "errors.errorString",
              msg |-> "x509: cannot sign with hash function requested"]

\* the single response entry in the bytes CreateResponse returned
CreatedEntry == ret.der.response[1].response.tbsResponseData.responses[1]

\* how many of the three status elements entry e carries
StatusElements(e) ==
    (IF e.good THEN 1 ELSE 0) + (IF e.unknown THEN 1 ELSE 0)
        + (IF e.revoked # <<>> THEN 1 ELSE 0)

\* C15: for every template status CreateResponse accepts, ServerFailed and
\* Revoked with a zero RevokedAt and reason 0 included, the entry in the
\* bytes it returns carries exactly one of the Good, Unknown and Revoked
\* elements, the one the template status names.
C15_ExactlyOneStatusElement ==
    call.op = "CreateResponse" /\ ret.kind = "DER" =>
        /\ StatusElements(CreatedEntry) = 1
        /\ CreatedEntry.good = (call.template.Status = Good)
        /\ CreatedEntry.unknown = (call.template.Status = Unknown)
        /\ (CreatedEntry.revoked # <<>>) = (call.template.Status = Revoked)

\* the response carries an embedded certificate
Embedded == Len(WireBasicResponse.certificates) > 0

\* the first embedded certificate
EmbeddedCertificate == WireBasicResponse.certificates[1].cert

\* the response signature verifies under the key of certificate c with the
\* signature algorithm the response names
ResponseSignedBy(c) ==
    CheckSignature(c, getSignatureAlgorithmFromAI(WireBasicResponse.signatureAlgorithm),
                   <<WireBasicResponse.tbsResponseData>>, WireBasicResponse.signature)

\* the embedded certificate's own signature verifies under the issuer's key
EmbeddedSignedByIssuer ==
    CheckSignature(call.issuer, EmbeddedCertificate.SignatureAlgorithm,
                   <<EmbeddedCertificate.RawTBSCertificate>>, EmbeddedCertificate.Signature)

\* the checks before and after the signature checks pass
OtherChecksPass ==
    /\ SelectionPasses
    /\ ResponderPasses
    /\ ~SelectedEntryHasCritical
    /\ SelectedEntry.certID.hashAlgorithm.Algorithm \in {hashOIDs[h] : h \in DOMAIN hashOIDs}

\* the error of the decision table, "" when every check it names passes
SignatureDecision ==
    IF Embedded
      THEN IF ~WireBasicResponse.certificates[1].parses THEN "x509"
           ELSE IF ~ResponseSignedBy(EmbeddedCertificate)
             THEN "bad signature on embedded certificate"
           ELSE IF ~call.issuer.isNil /\ ~EmbeddedSignedByIssuer
             THEN "bad OCSP signature"
           ELSE ""
    ELSE IF ~call.issuer.isNil /\ ~ResponseSignedBy(call.issuer)
      THEN "bad OCSP signature"
    ELSE ""

\* C16: the signature checks of a parse are decided by whether a
\* certificate is embedded and whether an issuer is given: embedded and
\* issuer, the response signature under the first embedded certificate and
\* that certificate's signature under the issuer; embedded and no issuer,
\* the first alone; not embedded and issuer, the response signature under
\* the issuer; neither, no check, so that any signature parses.  A
\* successful parse with an issuer has a response signature verified by the
\* issuer or by a certificate the issuer signed.
C16_SignatureDecisionTable ==
    BasicDecoded =>
        /\ OtherChecksPass => (ret.kind = "Response") = (SignatureDecision = "")
        /\ SelectionPasses /\ ResponderPasses /\ SignatureDecision # "" =>
             IF SignatureDecision = "x509" THEN ret = X509Error
             ELSE ret = ParseError(SignatureDecision)
        /\ OtherChecksPass /\ ~Embedded /\ call.issuer.isNil => ret.kind = "Response"
        /\ ret.kind = "Response" /\ ~call.issuer.isNil =>
             \/ ~Embedded /\ ResponseSignedBy(call.issuer)
             \/ Embedded /\ ResponseSignedBy(EmbeddedCertificate) /\ EmbeddedSignedByIssuer

\* C16 witness: no embedded certificate, no issuer, a signature that does
\* not cover the response data under an unresolved algorithm, and the parse
\* succeeds
C16_Witness ==
    /\ BasicDecoded /\ ~Embedded /\ call.issuer.isNil
    /\ WireBasicResponse.signature.over # <<WireBasicResponse.tbsResponseData>>
    /\ ret.kind = "Response"
    /\ ret.resp.SignatureAlgorithm = UnknownSignatureAlgorithm

\* C16 witness of the two-step check: a response signed by an embedded
\* certificate the issuer did not sign is rejected when the issuer is given
C16_EmbeddedNotFromIssuer ==
    /\ BasicDecoded /\ Embedded /\ ~call.issuer.isNil
    /\ WireBasicResponse.certificates[1].parses
    /\ ResponseSignedBy(EmbeddedCertificate)
    /\ ~EmbeddedSignedByIssuer
    /\ ret = ParseError("bad OCSP signature")

\* the state holds a ParseRequest call on bytes that decode
RequestDecoded == call.op = "ParseRequest" /\ call.der.syntax = "ok"

\* the object identifiers of the four supported hashes
SupportedHashOIDs == {hashOIDs[h] : h \in DOMAIN hashOIDs}

\* the first entry of the request list names a supported hash
FirstEntrySupported ==
    /\ Len(call.der.requestList) >= 1
    /\ call.der.requestList[1].hashAlgorithm.Algorithm \in SupportedHashOIDs

C18_MarshalCarriesExtensions ==
    call.op = "ParseRequest" /\ call.marshalled # <<>> /\ ret.kind = "Request" =>
        ret.req.Extensions = call.marshalled[1].Extensions

\* C18 amended: Marshal builds the bytes from the four CertID fields alone;
\* they carry no requestExtensions and are the bytes of the same request
\* without Extensions, and ParseRequest on them returns empty Extensions.
\* ParseRequest returns in Extensions the requestExtensions of the bytes it
\* is given.
C18_MarshalIgnoresExtensions ==
    /\ call.op = "Marshal" /\ ret.kind = "DER" =>
         /\ ret.der.requestExtensions = <<>>
         /\ ret = Marshal([call.req EXCEPT !.Extensions = <<>>])
    /\ call.op = "ParseRequest" /\ call.marshalled # <<>> =>
         ret.kind = "Request" /\ ret.req.Extensions = <<>>
    /\ RequestDecoded /\ ret.kind = "Request" =>
         ret.req.Extensions = IF call.der.requestExtensions = <<>> THEN <<>>
                              ELSE call.der.requestExtensions[1]

\* C18 witness: a request with an extension comes back from its marshalled
\* bytes without it
C18_Witness ==
    /\ call.op = "ParseRequest" /\ call.marshalled # <<>>
    /\ call.marshalled[1].Extensions = <<Extension(1, FALSE)>>
    /\ call.der.requestExtensions = <<>>
    /\ ret.kind = "Request"
    /\ ret.req.Extensions = <<>>

\* C18 witness of the parsing side: extensions on the wire are returned
C18_ParsedExtensions ==
    /\ RequestDecoded /\ call.marshalled = <<>>
    /\ call.der.requestExtensions # <<>>
    /\ ret.kind = "Request"
    /\ ret.req.Extensions = <<Extension(1, FALSE)>>

====
